---------------------------- MODULE Spec2Model ----------------------------
(***************************************************************************)
(* Model of the NID verification service: the shared NIDService singleton  *)
(* (cached bearer token and its expiry), the concurrent verifyNID calls    *)
(* and health checks that use it, and the registry they talk to.           *)
(*                                                                         *)
(* Atomicity follows the JavaScript event loop: the code between two       *)
(* awaits runs as one step.  One action is one such step.                  *)
(***************************************************************************)
EXTENDS Integers, Sequences, FiniteSets, TLC

(***************************************************************************)
(* Bounds of the model.                                                    *)
(***************************************************************************)
NumCallers == 2   \* concurrent inbound calls (verifyNID or health check)
MaxTime    == 3   \* the clock runs 0..MaxTime
MaxDepth   == 2   \* cap on the recursion depth of verifyNID

(***************************************************************************)
(* Program constants.  One clock unit stands for half of the validity      *)
(* window that authenticate assumes (60 * 60 * 1000 ms).                   *)
(***************************************************************************)
TokenTTL == 2

Callers  == 1..NumCallers
NoToken  == 0          \* this.accessToken = null
NoExpiry == -1         \* this.tokenExpiry = null

VARIABLES
    accessToken,   \* NIDService.accessToken: NoToken or a token
    tokenExpiry,   \* NIDService.tokenExpiry: NoExpiry or a time
    now,           \* the wall clock (Date.now())
    active,        \* the callers that may issue a call
    stub,          \* what the registry stub may answer: to a submission (verify),
                   \* to a login (login) and to the fetch of a photo (fetch)
    pc,            \* per caller: where its call stands
    kind,          \* per caller: "verify" (verifyNID) or "health" (GET /health)
    depth,         \* per caller: recursion depth of verifyNID
    exch,          \* one entry per authentication exchange: "pending", "ok", "fail"
    myExch,        \* per caller: index in exch of its latest exchange, 0 if none
    joined,        \* per caller: exchanges in flight when it last asked for a credential
    nLogin,        \* per caller: POST /auth/login requests issued by its call
    nSubmit,       \* per caller: verification submissions issued by its call
    sent,          \* per caller: the bearer token of its last submission, and
                   \* whether the clock was before the cached expiry then
    hist,          \* per caller: the responses its submissions received
    rejected,      \* tokens the registry answered with 401
    work,          \* per caller: the result being built while the photo is fetched
    outcome,       \* per caller: what the call returned or threw
    nid,           \* per caller: the length of the identifier given to verifyNID
    fetched,       \* per caller: how the fetch of the photo ended, "none" if none did
    request,       \* per caller: the HTTP request it sent, if it came over HTTP
    delivered,     \* per caller: the HTTP response handed to it
    audit,         \* per caller: the audit row built for its request and its insert
    table          \* the rows of request_logs, in the order they were inserted

vars == <<accessToken, tokenExpiry, now, active, stub, pc, kind, depth, exch,
          myExch, joined, nLogin, nSubmit, sent, hist, rejected, work, outcome,
          nid, fetched, request, delivered, audit, table>>

\* the state of the HTTP layer
httpVars == <<request, delivered, audit, table>>

(***************************************************************************)
(* Registry responses to POST /voter/demographic/verification.             *)
(* http = 0 stands for no response at all (network error or timeout).      *)
(* Optional booleans are "absent", "true" or "false".                      *)
(***************************************************************************)
Tri == {"absent", "true", "false"}

NoFvr   == [present |-> FALSE, nameEn |-> "absent", dateOfBirth |-> "absent"]
Fvr(n, d) == [present |-> TRUE, nameEn |-> n, dateOfBirth |-> d]

\* A photo reference: the protocol new URL() finds ("invalid" when it throws,
\* "none" for no photo) and the pieces of the path.
Url(pr, pa) == [protocol |-> pr, path |-> pa]
NoPhoto   == Url("none", <<>>)
PhotoUrl  == Url("https:", <<"photo", ".jpg">>)
\* references that are no image URL: another protocol, no extension, and an
\* image extension inside the path only (/photo.jpg.html)
PhotoFtp  == Url("ftp:", <<"photo", ".jpg">>)
PhotoNoExtension == Url("https:", <<"photo">>)
PhotoInnerExtension == Url("https:", <<"photo", ".jpg", ".html">>)
DataUrl(contentType) == Url("data:", <<contentType, "base64">>)

\* Person details: the plain fields (person), photo, and two more places an
\* asset can be: a field signature, and the photo of a nested object (inner).
NoData  == [present |-> FALSE, person |-> "none", photo |-> NoPhoto,
            signature |-> NoPhoto, inner |-> NoPhoto]
DataAssets(p, ph, sg, inn) ==
    [present |-> TRUE, person |-> p, photo |-> ph, signature |-> sg, inner |-> inn]
Data(p, ph) == DataAssets(p, ph, NoPhoto, NoPhoto)

NoSuccess == [present |-> FALSE, verified |-> "absent", fvr |-> NoFvr, data |-> NoData]
Success(v, f, d) == [present |-> TRUE, verified |-> v, fvr |-> f, data |-> d]

Resp(h, st, v, f, d, s) ==
    [http |-> h, status |-> st, statusCode |-> IF h = 400 THEN "E400" ELSE "absent",
     verified |-> v, fvr |-> f, data |-> d, success |-> s]

\* HTTP 200 in the shape the earlier version and the spec document.
RespOkNested == Resp(200, "OK", "absent", NoFvr, NoData,
                     Success("true", Fvr("true", "true"), Data("P", NoPhoto)))
\* HTTP 200 with verified and fieldVerificationResult at the top level.
RespOkFlat   == Resp(200, "OK", "true", Fvr("true", "true"), NoData,
                     Success("absent", NoFvr, Data("P", PhotoUrl)))
\* HTTP 200 whose person details carry embedded assets besides the photo.
RespOkAssets == Resp(200, "OK", "true", Fvr("true", "true"), NoData,
                     Success("absent", NoFvr,
                             DataAssets("P", PhotoUrl, DataUrl("image/png"),
                                        DataUrl("image/jpeg"))))
\* HTTP 200 with the photo reference ph.
RespOkPhoto(ph) == Resp(200, "OK", "true", Fvr("true", "true"), NoData,
                        Success("absent", NoFvr, Data("P", ph)))
RespOkBare   == Resp(200, "OK", "absent", NoFvr, NoData, NoSuccess)
RespMismatch == Resp(406, "none", "false", Fvr("false", "true"), Data("P", PhotoUrl), NoSuccess)
RespMismatchBare    == Resp(406, "none", "absent", NoFvr, NoData, NoSuccess)
RespMismatchPartial == Resp(406, "none", "false", Fvr("false", "absent"), Data("P", NoPhoto), NoSuccess)
RespMismatchTrue    == Resp(406, "none", "true", Fvr("true", "true"), Data("P", NoPhoto), NoSuccess)
RespUnauthorized == Resp(401, "ERR", "absent", NoFvr, NoData, NoSuccess)
RespBadRequest   == Resp(400, "ERR", "absent", NoFvr, NoData, NoSuccess)
RespServerError  == Resp(500, "ERR", "absent", NoFvr, NoData, NoSuccess)
RespNone         == Resp(0, "none", "absent", NoFvr, NoData, NoSuccess)

Responses == {RespOkNested, RespOkFlat, RespOkAssets, RespOkPhoto(PhotoFtp),
              RespOkPhoto(PhotoNoExtension), RespOkPhoto(PhotoInnerExtension), RespOkBare, RespMismatch, RespMismatchBare,
              RespMismatchPartial, RespMismatchTrue, RespUnauthorized,
              RespBadRequest, RespServerError, RespNone}

\* The responses used when several calls run concurrently.
CoreResponses == {RespOkFlat, RespUnauthorized, RespNone}

(***************************************************************************)
(* Results and errors of verifyNID.                                        *)
(***************************************************************************)
NoMessage       == "none"
MismatchMessage == "NID found but verification data does not match"

Result(v, d, f, m) == [verified |-> v, data |-> d, fvr |-> f, message |-> m]
NoResult == Result(FALSE, NoData, NoFvr, NoMessage)

NoOutcome == [kind |-> "none", result |-> NoResult, msg |-> <<>>]
Returned(r) == [kind |-> "result", result |-> r, msg |-> <<>>]
Thrown(m)   == [kind |-> "error", result |-> NoResult, msg |-> m]
Healthy     == [kind |-> "healthy", result |-> NoResult, msg |-> <<>>]
Unhealthy(m) == [kind |-> "unhealthy", result |-> NoResult, msg |-> m]

(***************************************************************************)
(* Registry responses to POST /auth/login.                                 *)
(***************************************************************************)
\* circular: without a response, error.request is the request object of the
\* HTTP adapter, which JSON.stringify cannot serialise.
Login(h, st, t) == [http |-> h, status |-> st, token |-> t, circular |-> FALSE]
LoginGood        == Login(200, "OK", TRUE)
LoginNoToken     == Login(200, "OK", FALSE)
LoginDenied      == Login(401, "ERR", FALSE)
LoginServerError == Login(500, "ERR", FALSE)
LoginNone        == Login(0, "none", FALSE)
LoginNoneCircular == [LoginNone EXCEPT !.circular = TRUE]
LoginResponses == {LoginGood, LoginNoToken, LoginDenied, LoginServerError, LoginNone,
                   LoginNoneCircular}

\* The login responses used when several calls run concurrently.
CoreLogins == {LoginGood, LoginNone}

(***************************************************************************)
(* axios: a request resolves when a response arrives and validateStatus    *)
(* accepts its status; otherwise it rejects with an error that carries the *)
(* response (error.response), if there was one.                            *)
(***************************************************************************)
\* axios's default validateStatus, which the earlier version of the service ran with
ValidateStatusDefault(status) == status >= 200 /\ status < 300

ValidateStatus(status) == status < 500

AxiosResolves(r) == r.http # 0 /\ ValidateStatus(r.http)

AxiosMessage(r) ==
    IF r.http = 0 THEN <<"timeout of 30000ms exceeded">>
    ELSE <<"Request failed with status code">>

NoHttp == -1   \* error.response is undefined

\* what the two requests to the registry carry: the password in the body of
\* the login, the token in the Authorization header of the submission
Password == "password"
BearerToken == "Bearer token"
Secrets == {Password, BearerToken}

\* the error axios rejects with: its message and the config of the request
AxiosError(r, secret) == [message |-> AxiosMessage(r), config |-> <<secret>>]

\* an error text that includes the config of the request
ErrorMessageWithConfig(err) == err.message \o err.config

\* error.message, the one part of the error the catch blocks put in theirs
ErrorMessage(err) == err.message

(***************************************************************************)
(* NIDService.authenticate and ensureValidToken.                           *)
(***************************************************************************)
\* ensureValidToken that logs in on every call
NeedsAuthAlways(tok, exp, t) == TRUE

\* ensureValidToken without the comparison with the clock
NeedsAuthNoClock(tok, exp, t) == tok = NoToken \/ exp # NoExpiry

\* the condition of ensureValidToken
NeedsAuth(tok, exp, t) == tok = NoToken \/ (exp # NoExpiry /\ t >= exp)

\* authenticate that stores the token and leaves the expiry unset
TokenExpiryUnset(t) == NoExpiry

\* the expiry authenticate stores with the token, at time t
TokenExpiryAt(t) == t + TokenTTL

\* authenticate that drops the cached token when the login fails
TokenClearedByFailedLogin(tok) == NoToken

\* the cached token after a login that failed: authenticate throws without
\* assigning accessToken or tokenExpiry
TokenAfterFailedLogin(tok) == tok

\* the test authenticate applies to the login response
LoginAccepted(r) == AxiosResolves(r) /\ r.status = "OK" /\ r.token

\* the message of the Error authenticate throws; the catch block logs
\* JSON.stringify(error.request) first, and a TypeError of that leaves instead
AuthErrorMessage(r) ==
    IF r.circular THEN <<"Converting circular structure to JSON">>
    ELSE <<"Authentication failed">> \o
             (IF AxiosResolves(r) THEN <<"Authentication failed", "Invalid response format">>
              ELSE ErrorMessage(AxiosError(r, Password)))

(***************************************************************************)
(* NIDService.verifyNID: the key of identify, from the length of the       *)
(* identifier.                                                             *)
(***************************************************************************)
NidLengths == {10, 13, 17}

\* the identifiers used when several calls run concurrently
CoreNids == {17}

NidType(n) == IF n = 17 THEN "nid17Digit" ELSE "nid10Digit"

(***************************************************************************)
(* NIDService.verifyNID: the classification of a response.                 *)
(***************************************************************************)
\* x !== false instead of x || false
TruthyUnlessFalse(t) == t # "false"

Truthy(t) == t = "true"

EmptyData  == Data("none", NoPhoto)            \* {}
EmptyFvr   == Fvr("absent", "absent")          \* {}
DefaultFvr == Fvr("false", "false")            \* {nameEn: false, dateOfBirth: false}

\* a 406 branch that leaves out the person details
MismatchResultNoDetails(r) ==
    Result(Truthy(r.verified),
           EmptyData,
           IF r.fvr.present THEN r.fvr ELSE DefaultFvr,
           MismatchMessage)

\* the result built in the 406 branches (of the try block and of the catch block)
MismatchResult(r) ==
    Result(Truthy(r.verified),
           IF r.data.present THEN r.data ELSE EmptyData,
           IF r.fvr.present THEN r.fvr ELSE DefaultFvr,
           MismatchMessage)

\* the result built when response.data.status === 'OK'
OkResult(r) ==
    Result(Truthy(r.verified),
           IF r.success.present /\ r.success.data.present THEN r.success.data ELSE EmptyData,
           IF r.fvr.present THEN r.fvr ELSE EmptyFvr,
           NoMessage)

\* the catch block of verifyNID, for an error with error.response.status = http
VerifyNIDCatch(http, msg, r) ==
    IF http = 401 THEN [tag |-> "retry", result |-> NoResult, msg |-> <<>>]
    ELSE IF http = 406 THEN [tag |-> "result", result |-> MismatchResult(r), msg |-> <<>>]
    ELSE [tag |-> "throw", result |-> NoResult,
          msg |-> <<"NID verification failed">> \o msg]

\* what verifyNID does with the settled submission
VerifyNIDSettle(r) ==
    IF AxiosResolves(r)
    THEN IF r.http = 406
         THEN [tag |-> "result", result |-> MismatchResult(r), msg |-> <<>>]
         ELSE IF r.status = "OK"
         THEN [tag |-> "result", result |-> OkResult(r), msg |-> <<>>]
         ELSE VerifyNIDCatch(NoHttp,
                  <<"Verification failed",
                    IF r.statusCode # "absent" THEN r.statusCode ELSE "Unknown error">>, r)
    ELSE VerifyNIDCatch(r.http, ErrorMessage(AxiosError(r, BearerToken)), r)

(***************************************************************************)
(* imageUtils.                                                             *)
(***************************************************************************)
ValidProtocols  == {"http:", "https:"}
ValidExtensions == {".jpg", ".jpeg", ".png", ".gif", ".bmp", ".webp"}

IsValidImageUrl(u) ==
    /\ u.protocol \in ValidProtocols
    /\ \E i \in DOMAIN u.path : u.path[i] \in ValidExtensions

\* what the GET of the photo yields: a content-type header, no header, or a failure
FetchOutcomes == {"image/jpeg", "text/html", "noheader", "failed"}

\* The fetch outcomes used when several calls run concurrently.
CoreFetches == {"image/jpeg"}

\* the encoded bytes alone, without data:<content type>
FetchImageBare(f) == Url("data:", <<"base64">>)

FetchImageAsBase64(f) == DataUrl(IF f = "noheader" THEN "image/jpeg" ELSE f)

\* processPhoto that drops the photo when the fetch fails
ProcessPhotoDropsPhoto(result, f) ==
    IF f = "failed" THEN [result EXCEPT !.data.photo = NoPhoto]
    ELSE [result EXCEPT !.data.photo = FetchImageAsBase64(f)]

\* the effect of processPhoto on the result, once the fetch has ended with f
ProcessPhoto(result, f) ==
    IF f = "failed" THEN result
    ELSE [result EXCEPT !.data.photo = FetchImageAsBase64(f)]

\* processPhoto goes on to fetch the photo
WantsFetch(result) == result.data.photo # NoPhoto /\ IsValidImageUrl(result.data.photo)

(***************************************************************************)
(* POST /verify: the code the route gives an error.  A message is the      *)
(* sequence of its ": "-separated parts; none of the parts the code        *)
(* produces contains another as a substring ("NID verification failed"     *)
(* has a lower-case v), so includes() is membership.                       *)
(***************************************************************************)
Includes(msg, part) == \E i \in DOMAIN msg : msg[i] = part

RouteErrorCode(msg) ==
    IF Includes(msg, "Authentication failed") THEN "SERVICE_UNAVAILABLE"
    ELSE IF Includes(msg, "Verification failed") THEN "VERIFICATION_FAILED"
    ELSE "INTERNAL_ERROR"

(***************************************************************************)
(* The HTTP layer: ipWhitelist, requestLogger and the routes of /api/nid.  *)
(* A response is its status and the fields of its JSON body; requestId 0   *)
(* stands for a body without requestId.                                    *)
(***************************************************************************)
NoDetails == [nameEn |-> FALSE, dateOfBirth |-> FALSE]

HttpResponse(st, k, code, id, err, v, det, pd, m) ==
    [status |-> st, kind |-> k, code |-> code, requestId |-> id, error |-> err,
     verified |-> v, verificationDetails |-> det, personDetails |-> pd, message |-> m]

NoResponse == HttpResponse(0, "none", "none", 0, <<>>, FALSE, NoDetails, NoData, NoMessage)

ErrorResponse(st, code, id, err) ==
    HttpResponse(st, "error", code, id, err, FALSE, NoDetails, NoData, NoMessage)

\* ipWhitelist: the address is not an active row of allowed_ips
DeniedResponse == ErrorResponse(403, "IP_NOT_AUTHORIZED", 0, <<>>)
\* ipWhitelist: the lookup threw
IpErrorResponse == ErrorResponse(500, "IP_VALIDATION_ERROR", 0, <<>>)
\* POST /verify: validationResult(req) is not empty
ValidationResponse == ErrorResponse(400, "VALIDATION_ERROR", 0, <<"Validation failed">>)

RouteStatus(msg) ==
    IF Includes(msg, "Authentication failed") THEN 503
    ELSE IF Includes(msg, "Verification failed") THEN 400
    ELSE 500

\* POST /verify and GET /health: the response for what the service returned or threw
RouteResponse(c, o) ==
    IF o.kind = "result"
    THEN HttpResponse(200, "result", "none", c, <<>>, o.result.verified,
                      [nameEn |-> Truthy(o.result.fvr.nameEn),
                       dateOfBirth |-> Truthy(o.result.fvr.dateOfBirth)],
                      o.result.data, o.result.message)
    ELSE IF o.kind = "error"
    THEN ErrorResponse(RouteStatus(o.msg), RouteErrorCode(o.msg), c, o.msg)
    ELSE IF o.kind = "healthy"
    THEN HttpResponse(200, "health", "none", 0, <<>>, FALSE, NoDetails, NoData, NoMessage)
    ELSE ErrorResponse(503, "none", 0, o.msg)

\* validation that does not look at the length of the identifier
ValidationIgnoresLength(n, wellFormed) == wellFormed

\* the input validation of POST /verify: the identifier without blanks has 10
\* or 17 characters, all digits, and the date and the name are well-formed
ValidationPasses(n, wellFormed) == n \in {10, 17} /\ wellFormed

(***************************************************************************)
(* requestLogger: the row of request_logs built from a response.           *)
(***************************************************************************)
PhotoMarker == Url("redacted", <<"[PHOTO_DATA_REMOVED_FOR_STORAGE]">>)

\* requestLogger without sanitizeResponseData (its earlier version)
SanitizeNothing(body) == body

\* sanitizeResponseData: data.personDetails.photo is replaced when it is set.
\* The data of a route's response has no photo, image, picture, avatar or
\* signature of its own, so the other two rules of the function find nothing.
SanitizeResponseData(body) ==
    IF body.personDetails.photo # NoPhoto
    THEN [body EXCEPT !.personDetails.photo = PhotoMarker]
    ELSE body

\* status 400 is recorded as a success
AuditStatusOffByOne(statusCode) == IF statusCode <= 400 THEN "SUCCESS" ELSE "ERROR"

AuditStatus(statusCode) == IF statusCode < 400 THEN "SUCCESS" ELSE "ERROR"

AuditRow(id, n, body) ==
    [request_id |-> id, nid |-> n, status |-> AuditStatus(body.status),
     response_data |-> SanitizeResponseData(body),
     error_message |-> IF body.status >= 400 THEN body ELSE NoResponse]

NoAudit == [state |-> "none", row |-> AuditRow(0, 0, NoResponse)]

\* the wrapped res.send never hands the response on
OriginalSendDropped(body) == NoResponse

\* sanitizeResponseData working on the response itself instead of on a copy
OriginalSendSanitized(body) == SanitizeResponseData(body)

\* res.send of requestLogger: what originalSend.call(this, data) hands to the caller
OriginalSend(body) == body

\* the failure of the insert reaches the caller as an error
InsertFailedThrows(resp) == ErrorResponse(500, "INTERNAL_ERROR", 0, <<>>)

\* logRequestToDatabase: what the caller holds after the insert failed
InsertFailed(resp) == resp

NoRequest == [via |-> "direct", path |-> "none", wellFormed |-> FALSE, look |-> "none"]

(***************************************************************************)
(* The state after construction: no token, no call under way.              *)
(***************************************************************************)
InitCalls ==
    /\ accessToken = NoToken
    /\ tokenExpiry = NoExpiry
    /\ now = 0
    /\ pc = [c \in Callers |-> "idle"]
    /\ kind = [c \in Callers |-> "verify"]
    /\ depth = [c \in Callers |-> 0]
    /\ exch = <<>>
    /\ myExch = [c \in Callers |-> 0]
    /\ joined = [c \in Callers |-> {}]
    /\ nLogin = [c \in Callers |-> 0]
    /\ nSubmit = [c \in Callers |-> 0]
    /\ sent = [c \in Callers |-> [tok |-> NoToken, live |-> FALSE, channel |-> "none"]]
    /\ hist = [c \in Callers |-> <<>>]
    /\ rejected = {}
    /\ work = [c \in Callers |-> NoResult]
    /\ outcome = [c \in Callers |-> NoOutcome]
    /\ nid = [c \in Callers |-> 0]
    /\ fetched = [c \in Callers |-> "none"]
    /\ request = [c \in Callers |-> NoRequest]
    /\ delivered = [c \in Callers |-> NoResponse]
    /\ audit = [c \in Callers |-> NoAudit]
    /\ table = <<>>

\* several concurrent calls against a registry with a small repertoire
Init ==
    /\ InitCalls
    /\ active = Callers
    /\ stub = [verify |-> CoreResponses, login |-> CoreLogins, fetch |-> CoreFetches,
               nids |-> CoreNids]

\* one call against a registry with the full repertoire
InitOne ==
    /\ InitCalls
    /\ active = {1}
    /\ stub = [verify |-> Responses, login |-> LoginResponses, fetch |-> FetchOutcomes,
               nids |-> NidLengths]

Pending == {i \in DOMAIN exch : exch[i] = "pending"}

(***************************************************************************)
(* The synchronous head of ensureValidToken, reached from the route or     *)
(* from the recursive call in the catch block: with the token tok and the  *)
(* expiry exp in the cache, either authenticate issues POST /auth/login    *)
(* or the caller goes on with the cached token.                            *)
(***************************************************************************)
EnsureValidToken(c, tok, exp) ==
    /\ joined' = [joined EXCEPT ![c] = Pending]
    /\ IF NeedsAuth(tok, exp, now)
       THEN /\ exch' = Append(exch, "pending")
            /\ myExch' = [myExch EXCEPT ![c] = Len(exch) + 1]
            /\ nLogin' = [nLogin EXCEPT ![c] = @ + 1]
            /\ pc' = [pc EXCEPT ![c] = "auth_wait"]
       ELSE /\ pc' = [pc EXCEPT ![c] = "ensured"]
            /\ UNCHANGED <<exch, myExch, nLogin>>

\* a caller enters verifyNID (POST /verify) or ensureValidToken (GET /health);
\* callers are interchangeable, so they are numbered in the order they call
Call(c, k) ==
    /\ c \in active
    /\ pc[c] = "idle"
    /\ \A d \in Callers : d < c => pc[d] # "idle"
    /\ kind' = [kind EXCEPT ![c] = k]
    /\ IF k = "verify"
       THEN \E n \in stub.nids : nid' = [nid EXCEPT ![c] = n]
       ELSE UNCHANGED nid
    /\ EnsureValidToken(c, accessToken, tokenExpiry)
    /\ UNCHANGED <<accessToken, tokenExpiry, now, active, stub, depth, nSubmit,
                   sent, hist, rejected, work, outcome, fetched>>
    /\ UNCHANGED httpVars

\* the login response arrives: the rest of authenticate, and of the callers
\* up to their next await
LoginResponse(c, r) ==
    /\ pc[c] = "auth_wait"
    /\ r \in stub.login
    /\ IF LoginAccepted(r)
       THEN /\ accessToken' = myExch[c]
            /\ tokenExpiry' = TokenExpiryAt(now)
            /\ exch' = [exch EXCEPT ![myExch[c]] = "ok"]
            /\ pc' = [pc EXCEPT ![c] = "ensured"]
            /\ UNCHANGED outcome
       ELSE /\ exch' = [exch EXCEPT ![myExch[c]] = "fail"]
            /\ pc' = [pc EXCEPT ![c] = "done"]
            /\ outcome' = [outcome EXCEPT ![c] =
                   IF kind[c] = "health" THEN Unhealthy(AuthErrorMessage(r))
                   ELSE Thrown(<<"NID verification failed">> \o AuthErrorMessage(r))]
            /\ accessToken' = TokenAfterFailedLogin(accessToken)
            /\ UNCHANGED tokenExpiry
    /\ UNCHANGED <<now, active, stub, kind, depth, myExch, joined, nLogin, nSubmit,
                   sent, hist, rejected, work, nid, fetched>>
    /\ UNCHANGED httpVars

\* GET /health after ensureValidToken returned
HealthOk(c) ==
    /\ pc[c] \in {"ensured", "ensured_tick"}
    /\ kind[c] = "health"
    /\ pc' = [pc EXCEPT ![c] = "done"]
    /\ outcome' = [outcome EXCEPT ![c] = Healthy]
    /\ UNCHANGED <<accessToken, tokenExpiry, now, active, stub, kind, depth, exch,
                   myExch, joined, nLogin, nSubmit, sent, hist, rejected, work,
                   nid, fetched>>
    /\ UNCHANGED httpVars

\* verifyNID after ensureValidToken returned: the submission is issued with
\* the token that is in the cache now
Submit(c) ==
    /\ pc[c] \in {"ensured", "ensured_tick"}
    /\ kind[c] = "verify"
    /\ nSubmit' = [nSubmit EXCEPT ![c] = @ + 1]
    /\ sent' = [sent EXCEPT ![c] = [tok |-> accessToken, live |-> now < tokenExpiry,
                                    channel |-> NidType(nid[c])]]
    /\ pc' = [pc EXCEPT ![c] = "verify_wait"]
    /\ UNCHANGED <<accessToken, tokenExpiry, now, active, stub, kind, depth, exch,
                   myExch, joined, nLogin, hist, rejected, work, outcome, nid, fetched>>
    /\ UNCHANGED httpVars

\* the submission settles: the rest of verifyNID up to its next await
VerifyResponse(c, r) ==
    /\ pc[c] = "verify_wait"
    /\ r \in stub.verify
    /\ hist' = [hist EXCEPT ![c] = Append(@, r)]
    /\ rejected' = IF r.http = 401 THEN rejected \cup {sent[c].tok} ELSE rejected
    /\ LET s == VerifyNIDSettle(r) IN
       IF s.tag = "retry"
       THEN /\ depth[c] < MaxDepth
            /\ depth' = [depth EXCEPT ![c] = @ + 1]
            /\ accessToken' = NoToken
            /\ tokenExpiry' = NoExpiry
            /\ EnsureValidToken(c, NoToken, NoExpiry)
            /\ UNCHANGED <<work, outcome>>
       ELSE /\ IF s.tag = "result" /\ WantsFetch(s.result)
               THEN /\ pc' = [pc EXCEPT ![c] = "photo_wait"]
                    /\ work' = [work EXCEPT ![c] = s.result]
                    /\ UNCHANGED outcome
               ELSE /\ pc' = [pc EXCEPT ![c] = "done"]
                    /\ outcome' = [outcome EXCEPT ![c] =
                           IF s.tag = "result" THEN Returned(s.result) ELSE Thrown(s.msg)]
                    /\ UNCHANGED work
            /\ UNCHANGED <<accessToken, tokenExpiry, depth, exch, myExch, joined, nLogin>>
    /\ UNCHANGED <<now, active, stub, kind, nSubmit, sent, nid, fetched>>
    /\ UNCHANGED httpVars

\* the photo fetch settles: the rest of processPhoto and of verifyNID
PhotoResponse(c, f) ==
    /\ pc[c] = "photo_wait"
    /\ f \in stub.fetch
    /\ pc' = [pc EXCEPT ![c] = "done"]
    /\ fetched' = [fetched EXCEPT ![c] = f]
    /\ outcome' = [outcome EXCEPT ![c] = Returned(ProcessPhoto(work[c], f))]
    /\ UNCHANGED <<accessToken, tokenExpiry, now, active, stub, kind, depth, exch,
                   myExch, joined, nLogin, nSubmit, sent, hist, rejected, work, nid>>
    /\ UNCHANGED httpVars

\* time passes.  A caller whose await of ensureValidToken has settled goes on
\* at once: the clock moves on at most once before it does ("ensured_tick").
Tick ==
    /\ now < MaxTime
    /\ \A c \in Callers : pc[c] # "ensured_tick"
    /\ now' = now + 1
    /\ pc' = [c \in Callers |-> IF pc[c] = "ensured" THEN "ensured_tick" ELSE pc[c]]
    /\ UNCHANGED <<accessToken, tokenExpiry, active, stub, kind, depth, exch,
                   myExch, joined, nLogin, nSubmit, sent, hist, rejected, work, outcome,
                   nid, fetched>>
    /\ UNCHANGED httpVars

Next ==
    \/ \E c \in Callers, k \in {"verify", "health"} : Call(c, k)
    \/ \E c \in Callers, r \in LoginResponses : LoginResponse(c, r)
    \/ \E c \in Callers : HealthOk(c)
    \/ \E c \in Callers : Submit(c)
    \/ \E c \in Callers, r \in Responses : VerifyResponse(c, r)
    \/ \E c \in Callers, f \in FetchOutcomes : PhotoResponse(c, f)
    \/ Tick

Spec == Init /\ [][Next]_vars

SpecOne == InitOne /\ [][Next]_vars

(***************************************************************************)
(* Requests over HTTP.  server.js mounts ipWhitelist, then requestLogger,  *)
(* then the routes.                                                        *)
(***************************************************************************)
IpLookups == {"allowed", "denied", "dberror"}

\* ipWhitelist that goes on to next() whatever row the lookup found
AdmitsUnlisted(look) == look \in {"allowed", "denied"}

\* ipWhitelist calls next() only for an address with an active row
\* a lookup that threw lets the request through
AdmitsOnError(look) == look \in {"allowed", "dberror"}

Admits(look) == look = "allowed"

\* one request over HTTP against a registry with the full repertoire
InitHttp ==
    /\ InitCalls
    /\ active = {1}
    /\ stub = [verify |-> Responses, login |-> LoginResponses, fetch |-> FetchOutcomes,
               nids |-> NidLengths]

\* a request arrives: ipWhitelist starts its lookup in allowed_ips
HttpRequest(c, path, wellFormed) ==
    /\ c \in active
    /\ pc[c] = "idle"
    /\ \A d \in Callers : d < c => pc[d] # "idle"
    /\ request' = [request EXCEPT ![c] =
                      [via |-> "http", path |-> path, wellFormed |-> wellFormed,
                       look |-> "none"]]
    /\ IF path = "verify"
       THEN \E n \in stub.nids : nid' = [nid EXCEPT ![c] = n]
       ELSE UNCHANGED nid
    /\ pc' = [pc EXCEPT ![c] = "ip_wait"]
    /\ UNCHANGED <<accessToken, tokenExpiry, now, active, stub, kind, depth, exch,
                   myExch, joined, nLogin, nSubmit, sent, hist, rejected, work,
                   outcome, fetched, delivered, audit, table>>

\* a requestId kept in one place for all requests: that of the latest arrival
RequestIdShared(c) ==
    CHOOSE d \in Callers :
        /\ request[d].via = "http"
        /\ \A f \in Callers : request[f].via = "http" => f <= d

\* requestLogger: the requestId of a request is its own (uuidv4 per request,
\* kept in req.requestId and in the closure of res.send)
RequestIdOf(c) == c

\* the res.send that requestLogger installs: the row is built and its insert
\* started without being awaited, then the response is handed on
Send(c, body) ==
    /\ audit' = [audit EXCEPT ![c] = [state |-> "pending",
                                        row |-> AuditRow(RequestIdOf(c), nid[c], body)]]
    /\ delivered' = [delivered EXCEPT ![c] = OriginalSend(body)]

\* the lookup of ipWhitelist settles.  A request that is let through passes
\* requestLogger, which gives it its requestId, and runs its route up to the
\* first await.
IpWhitelist(c, look) ==
    /\ pc[c] = "ip_wait"
    /\ look \in IpLookups
    /\ request' = [request EXCEPT ![c].look = look]
    /\ IF ~Admits(look)
       THEN /\ delivered' = [delivered EXCEPT ![c] =
                   IF look = "dberror" THEN IpErrorResponse ELSE DeniedResponse]
            /\ pc' = [pc EXCEPT ![c] = "closed"]
            /\ UNCHANGED <<audit, kind, exch, myExch, joined, nLogin>>
       ELSE IF request[c].path = "verify"
               /\ ~ValidationPasses(nid[c], request[c].wellFormed)
       THEN /\ Send(c, ValidationResponse)
            /\ pc' = [pc EXCEPT ![c] = "sent"]
            /\ UNCHANGED <<kind, exch, myExch, joined, nLogin>>
       ELSE /\ kind' = [kind EXCEPT ![c] = request[c].path]
            /\ EnsureValidToken(c, accessToken, tokenExpiry)
            /\ UNCHANGED <<delivered, audit>>
    /\ UNCHANGED <<accessToken, tokenExpiry, now, active, stub, depth, nSubmit,
                   sent, hist, rejected, work, outcome, nid, fetched, table>>

\* the route answers with what the service returned or threw
Respond(c) ==
    /\ pc[c] = "done"
    /\ request[c].via = "http"
    /\ Send(c, RouteResponse(RequestIdOf(c), outcome[c]))
    /\ pc' = [pc EXCEPT ![c] = "sent"]
    /\ UNCHANGED <<accessToken, tokenExpiry, now, active, stub, kind, depth, exch,
                   myExch, joined, nLogin, nSubmit, sent, hist, rejected, work,
                   outcome, nid, fetched, request, table>>

\* the insert into request_logs settles: the row is stored, or the insert
\* throws and logRequestToDatabase logs the failure
AuditSettle(c, stored) ==
    /\ audit[c].state = "pending"
    /\ IF stored
       THEN /\ table' = Append(table, audit[c].row)
            /\ audit' = [audit EXCEPT ![c].state = "stored"]
            /\ UNCHANGED delivered
       ELSE /\ audit' = [audit EXCEPT ![c].state = "failed"]
            /\ delivered' = [delivered EXCEPT ![c] = InsertFailed(@)]
            /\ UNCHANGED table
    /\ UNCHANGED <<accessToken, tokenExpiry, now, active, stub, pc, kind, depth, exch,
                   myExch, joined, nLogin, nSubmit, sent, hist, rejected, work,
                   outcome, nid, fetched, request>>

\* concurrent requests over HTTP against a registry that accepts the login
\* and answers every submission with a match without photo
InitHttpMany ==
    /\ InitCalls
    /\ active = Callers
    /\ stub = [verify |-> {RespOkNested}, login |-> {LoginGood},
               fetch |-> CoreFetches, nids |-> {10, 17}]

NextHttp ==
    \/ Next
    \/ \E c \in Callers, path \in {"verify", "health"}, wf \in BOOLEAN :
           HttpRequest(c, path, wf)
    \/ \E c \in Callers, look \in IpLookups : IpWhitelist(c, look)
    \/ \E c \in Callers : Respond(c)
    \/ \E c \in Callers, stored \in BOOLEAN : AuditSettle(c, stored)

SpecHttp == InitHttp /\ [][NextHttp]_vars

\* the steps of POST /verify requests while the token is within its validity
NextHttpMany ==
    \/ \E c \in Callers, wf \in BOOLEAN : HttpRequest(c, "verify", wf)
    \/ \E c \in Callers, look \in IpLookups : IpWhitelist(c, look)
    \/ \E c \in Callers, r \in LoginResponses : LoginResponse(c, r)
    \/ \E c \in Callers : Submit(c)
    \/ \E c \in Callers, r \in Responses : VerifyResponse(c, r)
    \/ \E c \in Callers : Respond(c)
    \/ \E c \in Callers, stored \in BOOLEAN : AuditSettle(c, stored)

SpecHttpMany == InitHttpMany /\ [][NextHttpMany]_vars

\* concurrent GET /health requests: the login is accepted, refused or gets no
\* response, and the clock runs
InitHealth ==
    /\ InitCalls
    /\ active = Callers
    /\ stub = [verify |-> {RespOkNested},
               login |-> {LoginGood, LoginDenied, LoginNoneCircular},
               fetch |-> CoreFetches, nids |-> CoreNids]

NextHealth ==
    \/ \E c \in Callers : HttpRequest(c, "health", TRUE)
    \/ \E c \in Callers, look \in IpLookups : IpWhitelist(c, look)
    \/ \E c \in Callers, r \in LoginResponses : LoginResponse(c, r)
    \/ \E c \in Callers : HealthOk(c)
    \/ \E c \in Callers : Respond(c)
    \/ Tick

SpecHealth == InitHealth /\ [][NextHealth]_vars

(***************************************************************************)
(* Every request settles (axios runs with timeout: 30000, an await of a    *)
(* settled promise goes on), so every call is continued.                   *)
(***************************************************************************)
Fairness ==
    \A c \in Callers :
        /\ WF_vars(\E r \in LoginResponses : LoginResponse(c, r))
        /\ WF_vars(HealthOk(c))
        /\ WF_vars(Submit(c))
        /\ WF_vars(\E r \in Responses : VerifyResponse(c, r))
        /\ WF_vars(\E f \in FetchOutcomes : PhotoResponse(c, f))

FairSpec == Init /\ [][Next]_vars /\ Fairness

(***************************************************************************)
(* Properties.                                                             *)
(***************************************************************************)
Done(c) == pc[c] = "done" /\ kind[c] = "verify"

LastResponse(c) == hist[c][Len(hist[c])]

\* the photo reference of the result, as the registry gave it
PhotoReference(c) == VerifyNIDSettle(LastResponse(c)).result.data.photo

\* C1: credential acquisition is single-flighted: however many callers find
\* the credential absent or expired, at most one POST /auth/login is
\* outstanding at any time.
C1_SingleFlight == Cardinality(Pending) <= 1

\* C2: a verifyNID call whose first submission was answered 401 asks for a new
\* credential and submits again; when the second answer is a success, the
\* call returns a result after exactly two submissions.
C2_RetryAfterUnauthorized ==
    \A c \in Callers :
        (Done(c) /\ hist[c] # <<>> /\ hist[c][1].http = 401) =>
            /\ depth[c] >= 1
            /\ (Len(hist[c]) >= 2 /\ hist[c][2].http = 200 /\ hist[c][2].status = "OK") =>
                   (nSubmit[c] = 2 /\ outcome[c].kind = "result")

\* C3: a verifyNID call that got nothing but 401 from the registry ends with an
\* error that POST /verify reports as SERVICE_UNAVAILABLE.
C3_UnauthorizedIsUnavailable ==
    \A c \in Callers :
        (Done(c) /\ hist[c] # <<>> /\ \A i \in DOMAIN hist[c] : hist[c][i].http = 401) =>
            /\ outcome[c].kind = "error"
            /\ RouteErrorCode(outcome[c].msg) = "SERVICE_UNAVAILABLE"

\* C4: a token the registry has answered with 401 is not in the cache.
C4_RejectedTokenCleared == accessToken = NoToken \/ accessToken \notin rejected

\* C5: every call that was started ends, with a result or an error, and it
\* issues at most two submissions and at most two logins.
C5_BoundedCall ==
    /\ <>[](\A c \in Callers : pc[c] \in {"idle", "done"})
    /\ [](\A c \in Callers : pc[c] = "done" => outcome[c].kind # "none")
    /\ [](\A c \in Callers : nSubmit[c] <= 2 /\ nLogin[c] <= 2)

\* a call that was answered 401 has ended
C5_Witness ==
    \E c \in Callers : Done(c) /\ hist[c] # <<>> /\ hist[c][1].http = 401

\* C6: a verifyNID call whose submission was answered 406 returns a result
\* with verified false and with both field-match flags.
C6_MismatchResult ==
    \A c \in Callers :
        (Done(c) /\ hist[c] # <<>> /\ LastResponse(c).http = 406) =>
            /\ outcome[c].kind = "result"
            /\ ~outcome[c].result.verified
            /\ outcome[c].result.fvr.nameEn # "absent"
            /\ outcome[c].result.fvr.dateOfBirth # "absent"

\* the documented shape: {status: "OK", success: {verified: true, data, fieldVerificationResult}}
DocumentedMatch(r) ==
    /\ r.http = 200
    /\ r.status = "OK"
    /\ r.success.present
    /\ r.success.verified = "true"
    /\ r.success.fvr.present
    /\ r.success.data.present

\* C7: a verifyNID call whose submission was answered 200 in the documented
\* shape returns verified true, the field-match flags of the response and the
\* person of the response.
C7_MatchResult ==
    \A c \in Callers :
        (Done(c) /\ hist[c] # <<>> /\ DocumentedMatch(LastResponse(c))) =>
            /\ outcome[c].kind = "result"
            /\ outcome[c].result.verified
            /\ outcome[c].result.fvr = LastResponse(c).success.fvr
            /\ outcome[c].result.data.person = LastResponse(c).success.data.person

\* C8: the token of every submission was there and unexpired when the
\* submission was issued.
C8_LiveTokenOnSubmit ==
    \A c \in Callers : nSubmit[c] > 0 => (sent[c].tok # NoToken /\ sent[c].live)

\* C9: a caller that enters ensureValidToken while a token is cached and its
\* expiry is ahead issues no login and leaves the token and the expiry alone.
C9_CachedNoExchange ==
    [][\A c \in Callers :
          (/\ pc[c] = "idle"
           /\ pc'[c] # "idle"
           /\ accessToken # NoToken
           /\ tokenExpiry # NoExpiry
           /\ now < tokenExpiry) =>
              /\ exch' = exch
              /\ nLogin'[c] = nLogin[c]
              /\ accessToken' = accessToken
              /\ tokenExpiry' = tokenExpiry]_vars

\* a caller went on with the cached token, without a login of its own
C9_Witness ==
    \E c \in Callers :
        /\ pc[c] = "ensured"
        /\ nLogin[c] = 0
        /\ accessToken # NoToken
        /\ now < tokenExpiry

\* C10: a caller that asks for a credential while an exchange is in flight
\* issues no exchange of its own.
C10_JoinInFlight ==
    \A c \in Callers : \A i \in joined[c] : myExch[c] < i

\* C11: every submission of verifyNID is for an identifier of 10 or of 17
\* characters and carries it under nid10Digit or nid17Digit respectively; an
\* identifier of another length is never submitted under a defaulted channel.
C11_ChannelByLength ==
    \A c \in Callers :
        nSubmit[c] > 0 =>
            /\ nid[c] \in {10, 17}
            /\ nid[c] = 10 => sent[c].channel = "nid10Digit"
            /\ nid[c] = 17 => sent[c].channel = "nid17Digit"

\* the assets of person details, and whether one is embedded data
AssetFields == {"photo", "signature", "inner"}

IsEmbedded(u) == u.protocol = "data:"

HasEmbedded(body) == \E f \in AssetFields : IsEmbedded(body.personDetails[f])

\* the rows of request_logs that carry the requestId of c
RowsOf(c) == {i \in DOMAIN table : table[i].request_id = c}

\* the response the route gives the request of c
Answer(c) ==
    IF request[c].path = "verify" /\ ~ValidationPasses(nid[c], request[c].wellFormed)
    THEN ValidationResponse
    ELSE RouteResponse(c, outcome[c])

\* C12: the stored row of a response whose data.personDetails.photo is embedded
\* data holds the redaction marker in that field and no embedded data anywhere.
C12_PhotoRedacted ==
    \A i \in DOMAIN table :
        IsEmbedded(delivered[table[i].request_id].personDetails.photo) =>
            /\ table[i].response_data.personDetails.photo = PhotoMarker
            /\ ~HasEmbedded(table[i].response_data)
            /\ ~HasEmbedded(table[i].error_message)

\* C13: in every stored row, every asset of the person details of the response,
\* at whatever depth, is replaced by a redaction marker.
C13_AssetsRedactedAtDepth ==
    \A i \in DOMAIN table : \A f \in AssetFields :
        delivered[table[i].request_id].personDetails[f] # NoPhoto =>
            table[i].response_data.personDetails[f].protocol = "redacted"

\* C14: once a request over HTTP has its response and no insert of its row is
\* outstanding, request_logs holds exactly one row with its requestId.
C14_OneAuditRow ==
    \A c \in Callers :
        (/\ request[c].via = "http"
         /\ delivered[c] # NoResponse
         /\ audit[c].state # "pending") =>
            Cardinality(RowsOf(c)) = 1

\* C15: whether the insert of the row failed or succeeded, the caller holds the
\* response the route gave, and the request stays answered.
C15_InsertFailureInvisible ==
    \A c \in Callers :
        audit[c].state \in {"failed", "stored"} =>
            /\ delivered[c] = Answer(c)
            /\ pc[c] = "sent"

\* the insert failed after a result was delivered with status 200
C15_Witness ==
    \E c \in Callers :
        /\ audit[c].state = "failed"
        /\ delivered[c].status = 200
        /\ delivered[c].kind = "result"

\* C16: as soon as the insert of a row has been started, and however it goes
\* on, the caller has the response.
C16_DeliveredWithoutWaiting ==
    \A c \in Callers :
        audit[c].state # "none" =>
            /\ delivered[c] # NoResponse
            /\ delivered[c] = Answer(c)

\* the caller has a result while the insert of its row is still outstanding
C16_Witness ==
    \E c \in Callers :
        /\ audit[c].state = "pending"
        /\ RowsOf(c) = {}
        /\ delivered[c].kind = "result"

\* C17: the row of a POST /verify request has status SUCCESS exactly when the
\* caller received a result, and ERROR exactly when it received an error.
C17_AuditStatusMatchesOutcome ==
    \A i \in DOMAIN table :
        request[table[i].request_id].path = "verify" =>
            /\ table[i].status = "SUCCESS" <=> delivered[table[i].request_id].kind = "result"
            /\ table[i].status = "ERROR" <=> delivered[table[i].request_id].kind = "error"

\* a conditional mismatch is stored as SUCCESS
C17_Witness ==
    \E i \in DOMAIN table :
        /\ request[table[i].request_id].path = "verify"
        /\ table[i].status = "SUCCESS"
        /\ delivered[table[i].request_id].kind = "result"
        /\ ~delivered[table[i].request_id].verified
        /\ delivered[table[i].request_id].message = MismatchMessage

\* C18: a verifyNID call whose photo fetch failed returns the result that the
\* registry response determines, photo reference included, unchanged.
C18_FetchFailureKeepsResult ==
    \A c \in Callers :
        (Done(c) /\ fetched[c] = "failed") =>
            /\ VerifyNIDSettle(LastResponse(c)).tag = "result"
            /\ outcome[c] = Returned(VerifyNIDSettle(LastResponse(c)).result)
            /\ outcome[c].result.data.photo = PhotoReference(c)

\* a mismatch result was returned with the photo reference after a failed fetch
C18_Witness ==
    \E c \in Callers :
        /\ Done(c)
        /\ fetched[c] = "failed"
        /\ LastResponse(c).http = 406
        /\ outcome[c].kind = "result"
        /\ ~outcome[c].result.verified
        /\ outcome[c].result.data.photo = PhotoUrl

\* C19: a verifyNID call whose submission was answered by something that is
\* neither a match, a mismatch nor a 401 ends with an error that POST /verify
\* reports as VERIFICATION_FAILED.
C19_OtherIsVerificationFailed ==
    \A c \in Callers :
        (/\ Done(c)
         /\ Len(hist[c]) > 0
         /\ LastResponse(c).http \notin {0, 401, 406}
         /\ LastResponse(c).status # "OK") =>
            /\ outcome[c].kind = "error"
            /\ RouteErrorCode(outcome[c].msg) = "VERIFICATION_FAILED"

\* C20: a verifyNID call whose submission got no response ends with an error
\* that POST /verify reports as SERVICE_UNAVAILABLE.
C20_UnreachableIsUnavailable ==
    \A c \in Callers :
        (Done(c) /\ Len(hist[c]) > 0 /\ LastResponse(c).http = 0) =>
            /\ outcome[c].kind = "error"
            /\ RouteErrorCode(outcome[c].msg) = "SERVICE_UNAVAILABLE"

\* C21: a call whose login failed has issued one login and no submission, and
\* ends with an error that POST /verify reports as an authentication failure
\* (SERVICE_UNAVAILABLE) and GET /health as unhealthy.
C21_AuthFailureSurfaces ==
    \A c \in Callers :
        (pc[c] = "done" /\ myExch[c] # 0 /\ exch[myExch[c]] = "fail") =>
            /\ nLogin[c] = 1
            /\ nSubmit[c] = 0
            /\ kind[c] = "health" => outcome[c].kind = "unhealthy"
            /\ kind[c] = "verify" =>
                   /\ outcome[c].kind = "error"
                   /\ Includes(outcome[c].msg, "Authentication failed")
                   /\ RouteErrorCode(outcome[c].msg) = "SERVICE_UNAVAILABLE"

C23_MismatchCarriesDetails ==
    \A c \in Callers :
        (kind[c] = "verify" /\ outcome[c].kind = "result") =>
            LET r == LastResponse(c)
                res == outcome[c].result
            IN  /\ r.http = 406 =>
                       /\ res.message = MismatchMessage
                       /\ r.data.present =>
                              /\ res.data.person = r.data.person
                              /\ res.data.signature = r.data.signature
                              /\ res.data.inner = r.data.inner
                       /\ r.fvr.present => res.fvr = r.fvr
                /\ r.http # 406 => res.message = NoMessage
                /\ delivered[c] # NoResponse =>
                       /\ delivered[c].message = res.message
                       /\ delivered[c].personDetails = res.data

\* a 406 with person details and flags was delivered with the message
C23_Witness ==
    \E c \in Callers :
        /\ delivered[c].kind = "result"
        /\ LastResponse(c).http = 406
        /\ delivered[c].message = MismatchMessage
        /\ delivered[c].personDetails.person = "P"
        /\ ~delivered[c].verificationDetails.nameEn
        /\ delivered[c].verificationDetails.dateOfBirth

\* an http or https URL whose path ends in an image extension
IsImageUrl(u) ==
    /\ u.protocol \in ValidProtocols
    /\ u.path # <<>>
    /\ u.path[Len(u.path)] \in ValidExtensions

\* C24: for a photo reference that is not an http or https URL with an image
\* extension, no fetch is attempted and the result keeps the reference.
C24_NoFetchForInvalidReference ==
    \A c \in Callers :
        (/\ kind[c] = "verify"
         /\ pc[c] \in {"photo_wait", "done"}
         /\ hist[c] # <<>>
         /\ ~IsImageUrl(PhotoReference(c))) =>
            /\ pc[c] # "photo_wait"
            /\ fetched[c] = "none"
            /\ outcome[c].kind = "result" =>
                   outcome[c].result.data.photo = PhotoReference(c)

\* C25: when the photo fetch yields content that is not an image, the result
\* keeps the photo reference.
C25_InvalidContentKeepsReference ==
    \A c \in Callers :
        (Done(c) /\ fetched[c] = "text/html") =>
            /\ outcome[c].kind = "result"
            /\ outcome[c].result.data.photo = PhotoReference(c)

\* C26: a request for whose address the allowlist has no active row is
\* answered 403 IP_NOT_AUTHORIZED, and no login and no submission is made for it.
C26_DeniedContactsNothing ==
    \A c \in Callers :
        request[c].look = "denied" =>
            /\ delivered[c] = DeniedResponse
            /\ pc[c] = "closed"
            /\ nLogin[c] = 0
            /\ nSubmit[c] = 0

\* a request was denied while the service holds no token
C26_Witness ==
    \E c \in Callers :
        /\ request[c].look = "denied"
        /\ delivered[c].status = 403
        /\ delivered[c].code = "IP_NOT_AUTHORIZED"
        /\ accessToken = NoToken

\* C27: a POST /verify request that fails validation is answered 400
\* VALIDATION_ERROR, and no login and no submission is made for it.
C27_InvalidContactsNothing ==
    \A c \in Callers :
        (/\ request[c].via = "http"
         /\ request[c].path = "verify"
         /\ ~(nid[c] \in {10, 17} /\ request[c].wellFormed)) =>
            /\ nLogin[c] = 0
            /\ nSubmit[c] = 0
            /\ request[c].look = "allowed" =>
                   /\ delivered[c] = ValidationResponse
                   /\ pc[c] = "sent"

\* an identifier of 13 digits was answered 400 VALIDATION_ERROR
C27_Witness ==
    \E c \in Callers :
        /\ request[c].path = "verify"
        /\ request[c].wellFormed
        /\ nid[c] = 13
        /\ delivered[c].status = 400
        /\ delivered[c].code = "VALIDATION_ERROR"

\* no part of the text is the password or the token
NoSecret(text) == \A i \in DOMAIN text : text[i] \notin Secrets

\* C28: neither the response delivered to a caller nor the row built for
\* request_logs contains the password or the bearer token.
C28_NoCredentialLeak ==
    /\ \A c \in Callers :
           /\ NoSecret(delivered[c].error)
           /\ NoSecret(audit[c].row.response_data.error)
           /\ NoSecret(audit[c].row.error_message.error)
    /\ \A i \in DOMAIN table :
           /\ NoSecret(table[i].response_data.error)
           /\ NoSecret(table[i].error_message.error)

\* the error of a failed login and of a failed submission were delivered and stored
C28_Witness ==
    \E i \in DOMAIN table :
        /\ table[i].status = "ERROR"
        /\ Includes(table[i].error_message.error, "timeout of 30000ms exceeded")
        /\ delivered[table[i].request_id].error = table[i].error_message.error

\* C29: the cached token and its expiry are both absent or both present, and
\* whenever either changes, both are cleared together or both are written by
\* the one login exchange that just succeeded.
C29_TokenPairedWithExpiry ==
    /\ [](accessToken = NoToken <=> tokenExpiry = NoExpiry)
    /\ [][(accessToken' # accessToken \/ tokenExpiry' # tokenExpiry) =>
             \/ accessToken' = NoToken /\ tokenExpiry' = NoExpiry
             \/ /\ accessToken' \in DOMAIN exch
                /\ exch[accessToken'] = "pending"
                /\ exch'[accessToken'] = "ok"
                /\ tokenExpiry' = now + TokenTTL]_vars

\* the token of one login was replaced by the token of another, later login
C29_Witness ==
    /\ accessToken # NoToken
    /\ tokenExpiry # NoExpiry
    /\ \E i \in DOMAIN exch : i # accessToken /\ exch[i] = "ok"

\* C30: with requests in flight concurrently, every stored row has the
\* requestId, the request data, the response and the status of one request,
\* and a delivered body that has a requestId has that of its own request.
C30_RowOfOneRequest ==
    /\ \A c \in Callers : delivered[c].requestId \in {0, c}
    /\ \A i \in DOMAIN table :
           LET id == table[i].request_id
           IN  /\ id \in Callers
               /\ request[id].via = "http"
               /\ table[i].nid = nid[id]
               /\ table[i].response_data = SanitizeResponseData(delivered[id])
               /\ table[i].status = AuditStatus(delivered[id].status)

\* the rows of two requests that were in flight together are stored, the later
\* request's first
C30_Witness ==
    /\ Len(table) = 2
    /\ table[1].request_id = 2
    /\ table[2].request_id = 1
    /\ table[1].nid # table[2].nid
    /\ delivered[1].requestId = 1
    /\ delivered[2].requestId = 2

\* a data: URL with its content type and the encoded bytes
IsInlinedAsset(u) ==
    /\ u.protocol = "data:"
    /\ Len(u.path) = 2
    /\ u.path[1] \in {"image/jpeg", "text/html"}
    /\ u.path[2] = "base64"

\* C31: while the photo is being fetched the call has not returned, and the
\* photo of a returned result is the reference of the registry or, after a
\* fetch that succeeded, the whole inlined asset.
C31_PhotoReferenceOrInlined ==
    \A c \in Callers :
        /\ pc[c] = "photo_wait" => outcome[c] = NoOutcome
        /\ (Done(c) /\ outcome[c].kind = "result") =>
               \/ /\ outcome[c].result.data.photo = PhotoReference(c)
                  /\ fetched[c] \in {"none", "failed"}
               \/ /\ IsInlinedAsset(outcome[c].result.data.photo)
                  /\ fetched[c] \notin {"none", "failed"}

\* a result was returned with the photo inlined
C31_Witness ==
    \E c \in Callers :
        /\ Done(c)
        /\ outcome[c].kind = "result"
        /\ fetched[c] = "image/jpeg"
        /\ PhotoReference(c) = PhotoUrl
        /\ outcome[c].result.data.photo = DataUrl("image/jpeg")

C33_FailedLoginKeepsCredential ==
    [][\A c \in Callers :
          (/\ pc[c] = "auth_wait"
           /\ exch[myExch[c]] = "pending"
           /\ exch'[myExch[c]] = "fail") =>
              /\ accessToken' = accessToken
              /\ tokenExpiry' = tokenExpiry]_vars

\* the login of a caller that found the cached token expired has failed, and
\* the token is still cached
C33_Witness ==
    \E c \in Callers :
        /\ pc[c] = "done"
        /\ myExch[c] # 0
        /\ exch[myExch[c]] = "fail"
        /\ joined[c] = {}
        /\ accessToken # NoToken
        /\ accessToken < myExch[c]
        /\ tokenExpiry # NoExpiry

C35_SanitizeLeavesResponse ==
    \A c \in Callers :
        audit[c].state # "none" =>
            /\ delivered[c].personDetails.photo # PhotoMarker
            /\ delivered[c].kind = "result" =>
                   delivered[c].personDetails.photo = outcome[c].result.data.photo
            /\ delivered[c].personDetails.photo # NoPhoto =>
                   audit[c].row.response_data.personDetails.photo = PhotoMarker
            /\ [audit[c].row.response_data EXCEPT
                   !.personDetails.photo = delivered[c].personDetails.photo] = delivered[c]

\* the caller holds the inlined photo and the stored row holds the marker
C35_Witness ==
    \E c \in Callers :
        /\ audit[c].state = "stored"
        /\ fetched[c] = "image/jpeg"
        /\ delivered[c].personDetails.photo = DataUrl("image/jpeg")
        /\ \E i \in RowsOf(c) :
               table[i].response_data.personDetails.photo = PhotoMarker

\* C36: a request whose allowlist lookup threw is answered 500
\* IP_VALIDATION_ERROR and ends there: it gets no requestId and no row, its
\* route does not run, and it causes no login and no submission.
C36_LookupFailureStops ==
    \A c \in Callers :
        request[c].look = "dberror" =>
            /\ delivered[c] = IpErrorResponse
            /\ pc[c] = "closed"
            /\ audit[c] = NoAudit
            /\ RowsOf(c) = {}
            /\ outcome[c] = NoOutcome
            /\ nLogin[c] = 0
            /\ nSubmit[c] = 0

\* a well-formed POST /verify was answered 500 IP_VALIDATION_ERROR
C36_Witness ==
    \E c \in Callers :
        /\ request[c].look = "dberror"
        /\ request[c].path = "verify"
        /\ ValidationPasses(nid[c], request[c].wellFormed)
        /\ delivered[c].status = 500
        /\ delivered[c].code = "IP_VALIDATION_ERROR"

=============================================================================
